---- MODULE Spec2Model ----
(***************************************************************************)
(* Site to Site File Transfer (n8n node): a model of the transfer          *)
(* operation `execute` in its two implementations, of the helpers          *)
(* extractBearerToken and parseHeaders, and of the transport they talk to. *)
(*                                                                         *)
(*   variant = "native"  actions/transferFile.operation (native http(s)    *)
(*                       download, helpers.request upload); the one the    *)
(*                       node registers in actions/index.ts                *)
(*   variant = "helper"  the earlier implementation kept in the repository *)
(*                       (helpers.request download, helpers.httpRequest    *)
(*                       upload)                                           *)
(*                                                                         *)
(* Strings are TLA+ strings; the texts handed to parseInt are sequences of *)
(* one-character strings so that parsing is computed.  Library functions   *)
(* (new URL, URLSearchParams.get, JSON.parse, String.trim) are tables over *)
(* the enumerated inputs.  Messages are sequences of text parts.           *)
(***************************************************************************)
EXTENDS Integers, Sequences, FiniteSets, TLC

VARIABLES
    variant,               \* which implementation of execute runs
    downloadUrl,           \* getNodeParameter('downloadUrl')
    uploadUrl,             \* getNodeParameter('uploadUrl')
    contentLength,         \* getNodeParameter('contentLength', '')
    method,                \* getNodeParameter('method', 'POST')
    downloadHeadersParam,  \* getNodeParameter('downloadHeaders', '{}')
    uploadHeadersParam,    \* getNodeParameter('uploadHeaders', '{}')
    throwOnError,          \* getNodeParameter('throwOnError', true)
    pc,                    \* position of the async function execute
    finalDownloadHeaders,  \* the header object of the download request
    finalUploadHeaders,    \* the header object of the upload request
    downloadRequests,      \* download requests handed to the transport
    uploadRequests,        \* upload requests handed to the transport
    downloadPromise,       \* the Promise the native download is awaited on
    downloadEvents,        \* what the transport delivered for the download
    uploadEvents,          \* what the transport delivered for the upload
    downloadStatusCode,    \* const downloadStatusCode
    stream,                \* the download response body
    outcome,               \* how the invocation ended
    items,                 \* the node's execute: this.getInputData()
    itemIndex,             \* the node's execute: the loop counter
    returnData,            \* the node's execute: the output records so far
    continueOnFail,        \* this.continueOnFail()
    batchPc,               \* position of the node's execute
    nodeOutcome,           \* how the node's execute ended
    itemOutcomes,          \* history: how the transfer of each item ended
    parses,                \* results of successive calls of parseHeaders
    responseLength         \* history: the content-length header of the
                           \* download response (kept in HeaderSpec only)

vars == <<variant, downloadUrl, uploadUrl, contentLength, method,
          downloadHeadersParam, uploadHeadersParam, throwOnError, pc,
          finalDownloadHeaders, finalUploadHeaders, downloadRequests,
          uploadRequests, downloadPromise, downloadEvents, uploadEvents,
          downloadStatusCode, stream, outcome, items, itemIndex, returnData,
          continueOnFail, batchPc, nodeOutcome, itemOutcomes, parses, responseLength>>

\* the state of one invocation of the transfer operation
transfer == <<variant, downloadUrl, uploadUrl, contentLength, method,
              downloadHeadersParam, uploadHeadersParam, throwOnError, pc,
              finalDownloadHeaders, finalUploadHeaders, downloadRequests,
              uploadRequests, downloadPromise, downloadEvents, uploadEvents,
              downloadStatusCode, stream, outcome>>

\* the state of the node's execute around the invocations
batch == <<items, itemIndex, returnData, continueOnFail, batchPc,
           nodeOutcome, itemOutcomes>>

params == <<variant, downloadUrl, uploadUrl, contentLength, method,
            downloadHeadersParam, uploadHeadersParam, throwOnError>>

-----------------------------------------------------------------------------
(* JavaScript values and conversions                                       *)

\* `undefined` where a status code is expected
NoStatus == -1

Digits == <<"0", "1", "2", "3", "4", "5", "6", "7", "8", "9">>

IsDigit(c) == \E i \in 1..10 : Digits[i] = c

DigitValue(c) == (CHOOSE i \in 1..10 : Digits[i] = c) - 1

IsWhiteSpace(c) == c \in {" ", "\t", "\n"}

\* String(n) for an integer n
RECURSIVE NatToString(_)
NatToString(n) ==
    IF n < 10 THEN Digits[n + 1]
    ELSE NatToString(n \div 10) \o Digits[(n % 10) + 1]

JsString(n) == IF n < 0 THEN "-" \o NatToString(0 - n) ELSE NatToString(n)

\* parseInt(text, 10): leading white space, an optional sign, then the
\* longest run of digits; NaN when there is no digit
RECURSIVE SkipWhiteSpace(_)
SkipWhiteSpace(s) ==
    IF s # <<>> /\ IsWhiteSpace(Head(s)) THEN SkipWhiteSpace(Tail(s)) ELSE s

RECURSIVE DigitRun(_)
DigitRun(s) ==
    IF s # <<>> /\ IsDigit(Head(s)) THEN <<Head(s)>> \o DigitRun(Tail(s))
    ELSE <<>>

RECURSIVE DigitsValue(_, _)
DigitsValue(s, acc) ==
    IF s = <<>> THEN acc
    ELSE DigitsValue(Tail(s), acc * 10 + DigitValue(Head(s)))

NaN == [nan |-> TRUE, val |-> 0]

Number(n) == [nan |-> FALSE, val |-> n]

ParseInt(text) ==
    LET t    == SkipWhiteSpace(text)
        neg  == t # <<>> /\ Head(t) = "-"
        rest == IF t # <<>> /\ Head(t) \in {"-", "+"} THEN Tail(t) ELSE t
        run  == DigitRun(rest)
    IN  IF run = <<>> THEN NaN
        ELSE Number(IF neg THEN 0 - DigitsValue(run, 0) ELSE DigitsValue(run, 0))

\* a value that is a number, a string or undefined (contentLength, a
\* response header)
JsNumber(n) == [kind |-> "number", num |-> n, text |-> <<>>]

JsText(t) == [kind |-> "string", num |-> 0, text |-> t]

JsUndefined == [kind |-> "undefined", num |-> 0, text |-> <<>>]

Truthy(v) ==
    CASE v.kind = "number" -> v.num # 0
      [] v.kind = "string" -> v.text # <<>>
      [] OTHER -> FALSE

\* a || b
OrElse(a, b) == IF Truthy(a) THEN a ELSE b

\* typeof v === 'number' ? v : parseInt(v, 10)
ToLength(v) == IF v.kind = "number" THEN Number(v.num) ELSE ParseInt(v.text)

\* status || fallback
StatusOr(status, fallback) ==
    IF status = NoStatus \/ status = 0 THEN fallback ELSE status

-----------------------------------------------------------------------------
(* Header objects: functions from header names to strings                  *)

NoHeaders == <<>>

HasKey(h, k) == k \in DOMAIN h

\* !h[k]
Missing(h, k) == ~HasKey(h, k) \/ h[k] = ""

\* { ...base, ...over }
Spread(base, over) ==
    [k \in DOMAIN base \cup DOMAIN over |->
        IF k \in DOMAIN over THEN over[k] ELSE base[k]]

\* h[k] = v
SetHeader(h, k, v) == Spread(h, k :> v)

-----------------------------------------------------------------------------
(* Library tables over the enumerated inputs                               *)

DownloadUrls ==
    {"", "  ", "https://src.example/file.bin", "src.example/file.bin"}

UploadUrls ==
    {"", " ", "https://dst.example/upload",
     "https://dst.example/upload?bearer=tok1",
     "https://dst.example/upload?bearer=a+b",
     "https://dst.example/upload?bearer=",
     "dst.example/upload?bearer=tok1"}

\* String.prototype.trim
Trim(u) == IF u \in {"", " ", "  "} THEN "" ELSE u

\* new URL(u) succeeds
UrlParses(u) ==
    u \in {"https://src.example/file.bin", "https://dst.example/upload",
           "https://dst.example/upload?bearer=tok1",
           "https://dst.example/upload?bearer=a+b",
           "https://dst.example/upload?bearer="}

Null == [isNull |-> TRUE, s |-> ""]

Str(s) == [isNull |-> FALSE, s |-> s]

\* new URL(u).searchParams.get('bearer'): the decoded value of the first
\* bearer parameter ('+' decodes to a space), null when there is none
SearchParamsGetBearer(u) ==
    CASE u = "https://dst.example/upload?bearer=tok1" -> Str("tok1")
      [] u = "https://dst.example/upload?bearer=a+b" -> Str("a b")
      [] u = "https://dst.example/upload?bearer=" -> Str("")
      [] OTHER -> Null

\* the values an object's entries may have
PString(s) == [t |-> "string", s |-> s, n |-> 0]

PNumber(n) == [t |-> "number", s |-> "", n |-> n]

PBoolean == [t |-> "boolean", s |-> "", n |-> 0]

PNull == [t |-> "null", s |-> "", n |-> 0]

PObject == [t |-> "object", s |-> "", n |-> 0]

\* JSON.parse(text): ok = FALSE when it throws; otherwise the type of the
\* parsed value and, for an object or array, its entries
JsonThrows == [ok |-> FALSE, t |-> "undefined", entries |-> <<>>]

JsonValue(t, entries) == [ok |-> TRUE, t |-> t, entries |-> entries]

JsonParse(text) ==
    CASE text = "{}" -> JsonValue("object", <<>>)
      [] text = "{\"Authorization\":\"Basic u1\"}" ->
             JsonValue("object", "Authorization" :> PString("Basic u1"))
      [] text = "{\"Content-Length\":99,\"X-Flag\":true}" ->
             JsonValue("object",
                       ("Content-Length" :> PNumber(99)) @@ ("X-Flag" :> PBoolean))
      [] text = "[\"a\"]" -> JsonValue("object", "0" :> PString("a"))
      [] text = "null" -> JsonValue("null", <<>>)
      [] text = "42" -> JsonValue("number", <<>>)
      [] OTHER -> JsonThrows

\* a headers parameter: a string or an object
HeaderText(text) == [kind |-> "string", text |-> text, entries |-> <<>>]

HeaderObject(entries) == [kind |-> "object", text |-> "", entries |-> entries]

-----------------------------------------------------------------------------
(* GenericFunctions.ts                                                     *)

\* StringEntries that keeps the number entries only
NumberEntries(entries) ==
    LET kept == {k \in DOMAIN entries : entries[k].t = "number"}
    IN  [k \in kept |-> JsString(entries[k].n)]

\* the loop over Object.entries: string and number values, stringified
StringEntries(entries) ==
    LET kept == {k \in DOMAIN entries : entries[k].t \in {"string", "number"}}
    IN  [k \in kept |->
            IF entries[k].t = "number" THEN JsString(entries[k].n)
            ELSE entries[k].s]

\* parseHeaders that passes a text JSON.parse rejects on as a header
parseHeadersKeepsText(headersParam) ==
    IF headersParam.kind = "string" /\ headersParam.text = "" THEN NoHeaders
    ELSE IF headersParam.kind = "string"
    THEN LET parsed == JsonParse(headersParam.text)
         IN  IF parsed.ok /\ parsed.t = "object"
             THEN StringEntries(parsed.entries)
             ELSE IF parsed.ok THEN NoHeaders
             ELSE "X-Headers" :> headersParam.text
    ELSE IF headersParam.kind = "object"
    THEN StringEntries(headersParam.entries)
    ELSE NoHeaders

parseHeaders(headersParam) ==
    IF headersParam.kind = "string" /\ headersParam.text = "" THEN NoHeaders
    ELSE IF headersParam.kind = "string"
    THEN LET parsed == JsonParse(headersParam.text)
         IN  IF parsed.ok /\ parsed.t = "object"
             THEN StringEntries(parsed.entries)
             ELSE NoHeaders
    ELSE IF headersParam.kind = "object"
    THEN StringEntries(headersParam.entries)
    ELSE NoHeaders

\* extractBearerToken that never finds the parameter
extractBearerTokenNone(url) == [token |-> Null, cleanUrl |-> url]

\* extractBearerToken that cuts the parameter out of the text of the URL
extractBearerTokenCut(url) ==
    CASE url = "https://dst.example/upload?bearer=tok1" ->
             [token |-> Str("tok1"), cleanUrl |-> "https://dst.example/upload"]
      [] url = "dst.example/upload?bearer=tok1" ->
             [token |-> Str("tok1"), cleanUrl |-> "dst.example/upload"]
      [] url = "https://dst.example/upload?bearer=a+b" ->
             [token |-> Str("a b"), cleanUrl |-> "https://dst.example/upload"]
      [] OTHER -> [token |-> Null, cleanUrl |-> url]

extractBearerToken(url) ==
    IF UrlParses(url)
    THEN LET bearer == SearchParamsGetBearer(url)
         IN  IF ~bearer.isNull /\ bearer.s # ""
             THEN [token |-> bearer, cleanUrl |-> url]
             ELSE [token |-> Null, cleanUrl |-> url]
    ELSE [token |-> Null, cleanUrl |-> url]

-----------------------------------------------------------------------------
(* Messages: sequences of text parts                                       *)

\* part.includes(label), for the two labels the catch block looks for
PartIncludes(part, label) ==
    CASE label = "Download URL" ->
             part \in {"Download URL is required and cannot be empty",
                       ". Download URL: "}
      [] label = "Upload URL" ->
             part \in {"Upload URL is required and cannot be empty",
                       ", Upload URL: "}
      [] OTHER -> part = label

\* message.includes(label)
Includes(message, label) ==
    \E i \in 1..Len(message) : PartIncludes(message[i], label)

DownloadUrlRequired == <<"Download URL is required and cannot be empty">>

UploadUrlRequired == <<"Upload URL is required and cannot be empty">>

DownloadStatusMessage(status, url) ==
    <<"Download failed with HTTP ", JsString(status), " from ", url,
      ". Please verify the download URL is accessible and returns a successful response.">>

UploadStatusMessage(status, url, m) ==
    <<"Upload failed with HTTP ", JsString(status), " to ", url,
      ". Please verify the upload URL is correct, authentication is valid, and the endpoint accepts ",
      m, " requests.">>

DownloadRequestFailed(message) == <<"Download request failed: ">> \o message

\* the error thrown for a body that is a parsed object, here {"message":"hi"}
NotStreamableObject(url) ==
    <<"Download response from ", url, " is not a streamable format. ",
      "The response body type is: object. ",
      "Response body keys: ", "message", ". ",
      "Response preview: ", "{\"message\":\"hi\"}", ". ",
      "This usually means the server returned JSON/text instead of binary data. ",
      "Please ensure the download URL returns a binary stream. ",
      "You may need to add headers like 'Accept: */*' to prevent automatic parsing.">>

\* the error thrown by the final check for a body with no pipe method
NotStreamableOther(url) ==
    <<"Download response from ", url, " is not a streamable format. ",
      "The response body type is: string, constructor: String. ",
      "Please ensure the download URL returns a binary stream.">>

\* the message of the TypeError thrown by new URL
InvalidUrl == <<"Invalid URL">>

\* messages of the errors the transport raises
FaultMessages == {<<"connect ECONNREFUSED">>, <<"socket hang up">>}

-----------------------------------------------------------------------------
(* execute: the parts that are pure                                        *)

NoOutcome == [kind |-> "none", message |-> <<>>, json |-> <<>>]

Raised(message) == [kind |-> "raised", message |-> message, json |-> <<>>]

Returned(json) == [kind |-> "returned", message |-> <<>>, json |-> json]

\* StatusFailed with only the codes from 400 up taken as failures
StatusFailedFrom400(status) == status < 200 \/ status >= 400

\* statusCode < 200 || statusCode >= 300
StatusFailed(status) == status < 200 \/ status >= 300

\* ValidateUrls without the check of the upload URL
ValidateDownloadUrlOnly(d, u) ==
    IF d = "" \/ Trim(d) = "" THEN DownloadUrlRequired ELSE <<>>

\* the two checks before the headers are parsed: the message thrown, or <<>>
ValidateUrls(d, u) ==
    IF d = "" \/ Trim(d) = "" THEN DownloadUrlRequired
    ELSE IF u = "" \/ Trim(u) = "" THEN UploadUrlRequired
    ELSE <<>>

DownloadHeaders(param) == Spread("Accept" :> "*/*", parseHeaders(param))

UploadDefaults(param) ==
    Spread("Content-Type" :> "application/octet-stream", parseHeaders(param))

\* if (token && !h['Authorization'] && !h['authorization'])
WithBearer(h, token) ==
    IF ~token.isNull /\ token.s # ""
       /\ Missing(h, "Authorization") /\ Missing(h, "authorization")
    THEN SetHeader(h, "Authorization", "Bearer " \o token.s)
    ELSE h

\* WithContentLength that leaves an existing Content-Length alone
WithContentLengthIfMissing(h, cl) ==
    IF Truthy(cl) /\ Missing(h, "Content-Length")
    THEN LET length == ToLength(cl)
         IN  IF ~length.nan /\ length.val > 0
             THEN SetHeader(h, "Content-Length", JsString(length.val))
             ELSE h
    ELSE h

\* if (contentLength) { ... h['Content-Length'] = String(length) }
WithContentLength(h, cl) ==
    IF Truthy(cl)
    THEN LET length == ToLength(cl)
         IN  IF ~length.nan /\ length.val > 0
             THEN SetHeader(h, "Content-Length", JsString(length.val))
             ELSE h
    ELSE h

UploadHeaders(param, url, cl) ==
    WithContentLength(
        WithBearer(UploadDefaults(param), extractBearerToken(url).token), cl)

\* WithResponseLength without the test `length > 0`
WithResponseLengthAnyNumber(h, cl, header) ==
    LET actual == OrElse(cl, header)
    IN  IF Truthy(actual) /\ Missing(h, "Content-Length")
        THEN LET length == ToLength(actual)
             IN  IF ~length.nan
                 THEN SetHeader(h, "Content-Length", JsString(length.val))
                 ELSE h
        ELSE h

\* const actualContentLength = contentLength || headers['content-length'];
\* if (actualContentLength && !h['Content-Length']) { ... }
WithResponseLength(h, cl, header) ==
    LET actual == OrElse(cl, header)
    IN  IF Truthy(actual) /\ Missing(h, "Content-Length")
        THEN LET length == ToLength(actual)
             IN  IF ~length.nan /\ length.val > 0
                 THEN SetHeader(h, "Content-Length", JsString(length.val))
                 ELSE h
        ELSE h

\* Enhance that never adds the URLs
EnhanceNever(message, d, u) == message

\* the message the catch block reports
Enhance(message, d, u) ==
    IF Includes(message, "Download URL") \/ Includes(message, "Upload URL")
    THEN message
    ELSE <<"File transfer failed: ">> \o message
         \o <<". Download URL: ", d, ", Upload URL: ", u>>

\* CatchOutcome that rethrows whatever throwOnError says
CatchAlwaysThrows(message, throw, d, u) == Raised(Enhance(message, d, u))

\* catch (error) { ... }
CatchOutcome(message, throw, d, u) ==
    IF throw THEN Raised(Enhance(message, d, u))
    ELSE Returned([error       |-> Enhance(message, d, u),
                   success     |-> FALSE,
                   downloadUrl |-> d,
                   uploadUrl   |-> u])

\* the record returned for a download status outside 2xx ("helper" only)
DownloadFailureRecord(message, status, d) ==
    [error |-> message, downloadStatus |-> status, downloadUrl |-> d]

\* the record returned for an upload status outside 2xx
UploadFailureRecord(message, uStatus, dStatus, d, u) ==
    [error          |-> message,
     uploadStatus   |-> uStatus,
     downloadStatus |-> dStatus,
     uploadUrl      |-> u,
     downloadUrl    |-> d]

\* SuccessRecord that reports 200 for both legs
SuccessRecordAlways200(dStatus, uStatus) ==
    [success |-> TRUE, downloadStatus |-> 200, uploadStatus |-> 200]

SuccessRecord(dStatus, uStatus) ==
    [success        |-> TRUE,
     downloadStatus |-> StatusOr(dStatus, 200),
     uploadStatus   |-> StatusOr(uStatus, 200)]

\* AfterUpload that does not look at the upload's status
AfterUploadUnchecked(uStatus, dStatus, throw, d, u, m) ==
    Returned(SuccessRecord(dStatus, uStatus))

\* everything after `await helpers.request(uploadOptions)` returned
AfterUpload(uStatus, dStatus, throw, d, u, m) ==
    IF uStatus # NoStatus /\ StatusFailed(uStatus)
    THEN IF throw
         THEN CatchOutcome(UploadStatusMessage(uStatus, u, m), throw, d, u)
         ELSE Returned(UploadFailureRecord(UploadStatusMessage(uStatus, u, m),
                                           uStatus, dStatus, d, u))
    ELSE Returned(SuccessRecord(dStatus, uStatus))

-----------------------------------------------------------------------------
(* The inputs and the transport's answers                                  *)

Variants == {"native", "helper"}

Methods == {"POST", "PUT"}

ContentLengths ==
    {JsText(<<>>), JsNumber(7), JsNumber(-3), JsText(<<"1", "2", "k">>)}

DownloadHeaderParams ==
    {HeaderText("{}"), HeaderObject("Accept" :> PString("application/json"))}

UploadHeaderParams ==
    {HeaderText("{}"),
     HeaderText("{oops"),
     HeaderText("{\"Content-Length\":99,\"X-Flag\":true}"),
     HeaderObject("Authorization" :> PString("Basic u1")),
     HeaderObject("authorization" :> PString("Basic u1")),
     HeaderObject("AUTHORIZATION" :> PString("Basic u1"))}

\* status codes a response may carry; NoStatus when it carries none
Statuses == {NoStatus, 199, 200, 299, 300, 404}

\* the content-length header of the download response
ResponseLengths == {JsUndefined, JsText(<<"4", "2">>), JsText(<<"0">>)}

\* what helpers.request hands back as the body of the download response
BodyKinds == {"stream", "buffer", "object", "string"}

NoPromise == [state |-> "none", statusCode |-> NoStatus, error |-> <<>>]

Pending == [state |-> "pending", statusCode |-> NoStatus, error |-> <<>>]

Resolved(status) == [state |-> "resolved", statusCode |-> status, error |-> <<>>]

Rejected(message) ==
    [state |-> "rejected", statusCode |-> NoStatus, error |-> message]

\* Settle that leaves the promise pending
SettleNever(promise, result) == promise

\* Settle where a later resolve or reject replaces the earlier result
SettleLast(promise, result) == result

\* resolve(...) and reject(...) settle a pending promise and nothing else
Settle(promise, result) == IF promise.state = "pending" THEN result ELSE promise

DownloadRequest(url, headers) == [url |-> url, headers |-> headers]

UploadRequest(m, url, headers) ==
    [method |-> m, url |-> url, headers |-> headers]

\* what the transport delivers: a response or an error
ResponseEvent(status, body) ==
    [type |-> "response", status |-> status, body |-> body]

ErrorEvent == [type |-> "error", status |-> NoStatus, body |-> "none"]

Delivered(events, type) == \E i \in 1..Len(events) : events[i].type = type

-----------------------------------------------------------------------------
(* execute as a state machine                                              *)

Init ==
    /\ variant \in Variants
    /\ downloadUrl \in DownloadUrls
    /\ uploadUrl \in UploadUrls
    /\ contentLength \in ContentLengths
    /\ method \in Methods
    /\ downloadHeadersParam \in DownloadHeaderParams
    /\ uploadHeadersParam \in UploadHeaderParams
    /\ throwOnError \in BOOLEAN
    /\ pc = "entry"
    /\ finalDownloadHeaders = NoHeaders
    /\ finalUploadHeaders = NoHeaders
    /\ downloadRequests = <<>>
    /\ uploadRequests = <<>>
    /\ downloadPromise = NoPromise
    /\ downloadEvents = <<>>
    /\ uploadEvents = <<>>
    /\ downloadStatusCode = NoStatus
    /\ stream = "none"
    /\ outcome = NoOutcome
    /\ items = <<>>
    /\ itemIndex = 0
    /\ returnData = <<>>
    /\ continueOnFail = FALSE
    /\ batchPc = "idle"
    /\ nodeOutcome = NoOutcome
    /\ itemOutcomes = <<>>
    /\ parses = <<>>
    /\ responseLength = JsUndefined

\* the invocation ends with `result`
Finish(result) ==
    /\ pc' = "done"
    /\ outcome' = result

\* helpers.request(uploadOptions) / helpers.httpRequest(uploadOptions) is
\* called with the download stream as its body
IssueUpload(headers) ==
    /\ uploadRequests' =
           Append(uploadRequests, UploadRequest(method, uploadUrl, headers))
    /\ stream' = "piped"
    /\ pc' = "awaitUpload"
    /\ UNCHANGED outcome

\* a URL is missing: thrown before the try block
RejectParameters ==
    /\ pc = "entry"
    /\ ValidateUrls(downloadUrl, uploadUrl) # <<>>
    /\ Finish(Raised(ValidateUrls(downloadUrl, uploadUrl)))
    /\ UNCHANGED <<params, finalDownloadHeaders, finalUploadHeaders,
                   downloadRequests, uploadRequests, downloadPromise,
                   downloadEvents, uploadEvents, downloadStatusCode, stream>>

\* "native": new URL(downloadUrl) throws inside the try block
RejectDownloadUrl ==
    /\ pc = "entry"
    /\ variant = "native"
    /\ ValidateUrls(downloadUrl, uploadUrl) = <<>>
    /\ ~UrlParses(downloadUrl)
    /\ finalDownloadHeaders' = DownloadHeaders(downloadHeadersParam)
    /\ finalUploadHeaders' =
           UploadHeaders(uploadHeadersParam, uploadUrl, contentLength)
    /\ Finish(CatchOutcome(InvalidUrl, throwOnError, downloadUrl, uploadUrl))
    /\ UNCHANGED <<params, downloadRequests, uploadRequests, downloadPromise,
                   downloadEvents, uploadEvents, downloadStatusCode, stream>>

\* from the entry of execute to the first await: the headers are prepared
\* and the download request is sent
StartDownload ==
    /\ pc = "entry"
    /\ ValidateUrls(downloadUrl, uploadUrl) = <<>>
    /\ variant = "native" => UrlParses(downloadUrl)
    /\ finalDownloadHeaders' = DownloadHeaders(downloadHeadersParam)
    /\ finalUploadHeaders' =
           UploadHeaders(uploadHeadersParam, uploadUrl, contentLength)
    /\ downloadRequests' =
           Append(downloadRequests,
                  DownloadRequest(downloadUrl,
                                  DownloadHeaders(downloadHeadersParam)))
    /\ downloadPromise' = Pending
    /\ pc' = "awaitDownload"
    /\ UNCHANGED <<params, uploadRequests, downloadEvents, uploadEvents,
                   downloadStatusCode, stream, outcome>>

\* "native": the response callback of downloadClient.request
DownloadResponse(status, header) ==
    /\ variant = "native"
    /\ downloadRequests # <<>>
    /\ ~Delivered(downloadEvents, "response")
    /\ downloadEvents' = Append(downloadEvents, ResponseEvent(status, "stream"))
    /\ LET statusCode == StatusOr(status, 0)
       IN  IF StatusFailed(statusCode)
           THEN /\ stream' = "destroyed"
                /\ downloadPromise' =
                       Settle(downloadPromise,
                              Rejected(DownloadStatusMessage(statusCode,
                                                             downloadUrl)))
                /\ UNCHANGED finalUploadHeaders
           ELSE /\ finalUploadHeaders' =
                       WithResponseLength(finalUploadHeaders, contentLength,
                                          header)
                /\ downloadPromise' =
                       Settle(downloadPromise, Resolved(statusCode))
                /\ stream' = "open"
    /\ UNCHANGED <<params, pc, finalDownloadHeaders, downloadRequests,
                   uploadRequests, uploadEvents, downloadStatusCode, outcome>>

\* "native": req.on('error', ...)
DownloadError(message) ==
    /\ variant = "native"
    /\ downloadRequests # <<>>
    /\ ~Delivered(downloadEvents, "error")
    /\ downloadEvents' = Append(downloadEvents, ErrorEvent)
    /\ downloadPromise' =
           Settle(downloadPromise, Rejected(DownloadRequestFailed(message)))
    /\ UNCHANGED <<params, pc, finalDownloadHeaders, finalUploadHeaders,
                   downloadRequests, uploadRequests, uploadEvents,
                   downloadStatusCode, stream, outcome>>

\* "native": execute resumes after `await new Promise(...)` was rejected
DownloadRejected ==
    /\ variant = "native"
    /\ pc = "awaitDownload"
    /\ downloadPromise.state = "rejected"
    /\ Finish(CatchOutcome(downloadPromise.error, throwOnError, downloadUrl,
                           uploadUrl))
    /\ UNCHANGED <<params, finalDownloadHeaders, finalUploadHeaders,
                   downloadRequests, uploadRequests, downloadPromise,
                   downloadEvents, uploadEvents, downloadStatusCode, stream>>

\* "native": execute resumes after `await new Promise(...)` was resolved
\* and sends the upload
DownloadResolved ==
    /\ variant = "native"
    /\ pc = "awaitDownload"
    /\ downloadPromise.state = "resolved"
    /\ downloadStatusCode' = downloadPromise.statusCode
    /\ IssueUpload(finalUploadHeaders)
    /\ UNCHANGED <<params, finalDownloadHeaders, finalUploadHeaders,
                   downloadRequests, downloadPromise, downloadEvents,
                   uploadEvents>>

\* HelperAfterDownload without the checks of the body's shape
HelperAfterDownloadUnchecked(status, header, body) ==
    IF status # NoStatus /\ StatusFailed(status)
    THEN [upload  |-> FALSE,
          headers |-> finalUploadHeaders,
          result  |-> IF throwOnError
                      THEN CatchOutcome(DownloadStatusMessage(status, downloadUrl),
                                        throwOnError, downloadUrl, uploadUrl)
                      ELSE Returned(DownloadFailureRecord(
                               DownloadStatusMessage(status, downloadUrl),
                               status, downloadUrl))]
    ELSE [upload  |-> TRUE,
          headers |-> WithResponseLength(finalUploadHeaders, contentLength,
                                         header),
          result  |-> NoOutcome]

\* "helper": everything between `await helpers.request(downloadOptions)`
\* and the upload request, given the response's status, content-length
\* header and body
HelperAfterDownload(status, header, body) ==
    IF status # NoStatus /\ StatusFailed(status)
    THEN [upload  |-> FALSE,
          headers |-> finalUploadHeaders,
          result  |-> IF throwOnError
                      THEN CatchOutcome(DownloadStatusMessage(status, downloadUrl),
                                        throwOnError, downloadUrl, uploadUrl)
                      ELSE Returned(DownloadFailureRecord(
                               DownloadStatusMessage(status, downloadUrl),
                               status, downloadUrl))]
    ELSE LET headers == WithResponseLength(finalUploadHeaders, contentLength,
                                           header)
         IN  CASE body \in {"stream", "buffer"} ->
                      [upload |-> TRUE, headers |-> headers, result |-> NoOutcome]
               [] body = "object" ->
                      [upload  |-> FALSE,
                       headers |-> headers,
                       result  |-> CatchOutcome(NotStreamableObject(downloadUrl),
                                                throwOnError, downloadUrl,
                                                uploadUrl)]
               [] OTHER ->
                      [upload  |-> FALSE,
                       headers |-> headers,
                       result  |-> CatchOutcome(NotStreamableOther(downloadUrl),
                                                throwOnError, downloadUrl,
                                                uploadUrl)]

\* "helper": helpers.request(downloadOptions) returns a response
HelperDownloadResponse(status, header, body) ==
    /\ variant = "helper"
    /\ pc = "awaitDownload"
    /\ downloadEvents' = Append(downloadEvents, ResponseEvent(status, body))
    /\ downloadStatusCode' = status
    /\ LET next == HelperAfterDownload(status, header, body)
       IN  /\ finalUploadHeaders' = next.headers
           /\ IF next.upload
              THEN IssueUpload(next.headers)
              ELSE /\ Finish(next.result)
                   /\ stream' = IF body = "stream" THEN "open" ELSE "none"
                   /\ UNCHANGED uploadRequests
    /\ UNCHANGED <<params, finalDownloadHeaders, downloadRequests,
                   downloadPromise, uploadEvents>>

\* "helper": helpers.request(downloadOptions) throws
HelperDownloadError(message) ==
    /\ variant = "helper"
    /\ pc = "awaitDownload"
    /\ downloadEvents' = Append(downloadEvents, ErrorEvent)
    /\ Finish(CatchOutcome(message, throwOnError, downloadUrl, uploadUrl))
    /\ UNCHANGED <<params, finalDownloadHeaders, finalUploadHeaders,
                   downloadRequests, uploadRequests, downloadPromise,
                   uploadEvents, downloadStatusCode, stream>>

\* how far the upload request has read its body when its response is
\* there: to the end when the receiver accepted the body, to the end or not
\* when it answered with a failure status
ReadByUpload(status) ==
    IF status # NoStatus /\ StatusFailed(status)
    THEN {"consumed", "piped"}
    ELSE {"consumed"}

\* the upload request returns a response
UploadResponse(status) ==
    /\ pc = "awaitUpload"
    /\ uploadEvents' = Append(uploadEvents, ResponseEvent(status, "none"))
    /\ stream' \in ReadByUpload(status)
    /\ Finish(AfterUpload(status, downloadStatusCode, throwOnError,
                          downloadUrl, uploadUrl, method))
    /\ UNCHANGED <<params, finalDownloadHeaders, finalUploadHeaders,
                   downloadRequests, uploadRequests, downloadPromise,
                   downloadEvents, downloadStatusCode>>

\* the upload request throws
UploadError(message) ==
    /\ pc = "awaitUpload"
    /\ uploadEvents' = Append(uploadEvents, ErrorEvent)
    /\ Finish(CatchOutcome(message, throwOnError, downloadUrl, uploadUrl))
    /\ UNCHANGED <<params, finalDownloadHeaders, finalUploadHeaders,
                   downloadRequests, uploadRequests, downloadPromise,
                   downloadEvents, downloadStatusCode, stream>>

\* a step of one invocation leaves the rest alone
Alone == UNCHANGED <<batch, parses, responseLength>>

Next ==
    \/ RejectParameters /\ Alone
    \/ RejectDownloadUrl /\ Alone
    \/ StartDownload /\ Alone
    \/ \E status \in Statuses, header \in ResponseLengths :
           DownloadResponse(status, header) /\ Alone
    \/ \E message \in FaultMessages : DownloadError(message) /\ Alone
    \/ DownloadRejected /\ Alone
    \/ DownloadResolved /\ Alone
    \/ \E status \in Statuses, header \in ResponseLengths, body \in BodyKinds :
           HelperDownloadResponse(status, header, body) /\ Alone
    \/ \E message \in FaultMessages : HelperDownloadError(message) /\ Alone
    \/ \E status \in Statuses : UploadResponse(status) /\ Alone
    \/ \E message \in FaultMessages : UploadError(message) /\ Alone

Spec == Init /\ [][Next]_vars

-----------------------------------------------------------------------------
(* The node's execute: the loop over the input items                       *)

\* the largest number of input items
MaxItems == 2

Item(d, u, cl, dh, uh, throw) ==
    [downloadUrl          |-> d,
     uploadUrl            |-> u,
     contentLength        |-> cl,
     method               |-> "POST",
     downloadHeadersParam |-> dh,
     uploadHeadersParam   |-> uh,
     throwOnError         |-> throw]

\* the parameters an input item may carry
ItemInputs ==
    {Item("https://src.example/file.bin",
          "https://dst.example/upload?bearer=tok1", JsText(<<>>),
          HeaderObject("Accept" :> PString("application/json")),
          HeaderText("{}"), TRUE),
     Item("https://src.example/file.bin", "https://dst.example/upload",
          JsNumber(7), HeaderText("{}"),
          HeaderObject("Authorization" :> PString("Basic u1")), FALSE),
     Item("", "https://dst.example/upload", JsText(<<>>), HeaderText("{}"),
          HeaderText("{}"), FALSE),
     Item("src.example/file.bin", "https://dst.example/upload", JsText(<<>>),
          HeaderText("{}"), HeaderText("{}"), TRUE)}

ItemLists == UNION {[1..n -> ItemInputs] : n \in 0..MaxItems}

\* what the transport answers during a batch
BatchStatuses == {200, 404}

BatchLengths == {JsText(<<"4", "2">>)}

BatchFaults == {<<"socket hang up">>}

\* { json: ..., pairedItem: { item: itemIndex } }
OutputRecord(json, index) == [json |-> json, pairedItem |-> index]

\* the loop going on without waiting for the transfer
NotAwaited == TRUE

\* `await operations.transferFile.execute.call(this, itemIndex)` is over
TransferFinished == pc = "done"

\* the catch block that pushes nothing for the failed item
ItemFailedDropped(message) ==
    IF continueOnFail
    THEN /\ itemIndex' = itemIndex + 1
         /\ batchPc' = "loop"
         /\ UNCHANGED <<returnData, nodeOutcome>>
    ELSE /\ nodeOutcome' = Raised(message)
         /\ batchPc' = "done"
         /\ UNCHANGED <<returnData, itemIndex>>

\* the catch block that goes on whatever continueOnFail() says
ItemFailedContinues(message) ==
    /\ returnData' =
           Append(returnData, OutputRecord([error |-> message], itemIndex))
    /\ itemIndex' = itemIndex + 1
    /\ batchPc' = "loop"
    /\ UNCHANGED nodeOutcome

\* catch (error) { ... } of the loop
ItemFailed(message) ==
    IF continueOnFail
    THEN /\ returnData' =
                Append(returnData,
                       OutputRecord([error |-> message], itemIndex))
         /\ itemIndex' = itemIndex + 1
         /\ batchPc' = "loop"
         /\ UNCHANGED nodeOutcome
    ELSE /\ nodeOutcome' = Raised(message)
         /\ batchPc' = "done"
         /\ UNCHANGED <<returnData, itemIndex>>

BatchInit ==
    /\ items \in ItemLists
    /\ itemIndex = 0
    /\ returnData = <<>>
    /\ continueOnFail \in BOOLEAN
    /\ batchPc = "loop"
    /\ nodeOutcome = NoOutcome
    /\ itemOutcomes = <<>>
    /\ parses = <<>>
    /\ responseLength = JsUndefined
    /\ variant = "native"
    /\ downloadUrl = ""
    /\ uploadUrl = ""
    /\ contentLength = JsText(<<>>)
    /\ method = "POST"
    /\ downloadHeadersParam = HeaderText("{}")
    /\ uploadHeadersParam = HeaderText("{}")
    /\ throwOnError = TRUE
    /\ pc = "idle"
    /\ finalDownloadHeaders = NoHeaders
    /\ finalUploadHeaders = NoHeaders
    /\ downloadRequests = <<>>
    /\ uploadRequests = <<>>
    /\ downloadPromise = NoPromise
    /\ downloadEvents = <<>>
    /\ uploadEvents = <<>>
    /\ downloadStatusCode = NoStatus
    /\ stream = "none"
    /\ outcome = NoOutcome

\* the loop body is entered: the operation is called for item itemIndex
\* and reads that item's parameters into fresh locals
CallTransfer ==
    /\ batchPc = "loop"
    /\ itemIndex < Len(items)
    /\ LET item == items[itemIndex + 1]
       IN  /\ downloadUrl' = item.downloadUrl
           /\ uploadUrl' = item.uploadUrl
           /\ contentLength' = item.contentLength
           /\ method' = item.method
           /\ downloadHeadersParam' = item.downloadHeadersParam
           /\ uploadHeadersParam' = item.uploadHeadersParam
           /\ throwOnError' = item.throwOnError
    /\ pc' = "entry"
    /\ finalDownloadHeaders' = NoHeaders
    /\ finalUploadHeaders' = NoHeaders
    /\ downloadRequests' = <<>>
    /\ uploadRequests' = <<>>
    /\ downloadPromise' = NoPromise
    /\ downloadEvents' = <<>>
    /\ uploadEvents' = <<>>
    /\ downloadStatusCode' = NoStatus
    /\ stream' = "none"
    /\ outcome' = NoOutcome
    /\ batchPc' = "item"
    /\ UNCHANGED <<variant, items, itemIndex, returnData, continueOnFail,
                   nodeOutcome, itemOutcomes, parses, responseLength>>

\* the operation returned: returnData.push(result)
ItemReturned ==
    /\ batchPc = "item"
    /\ TransferFinished
    /\ outcome.kind # "raised"
    /\ returnData' = Append(returnData, OutputRecord(outcome.json, itemIndex))
    /\ itemOutcomes' = Append(itemOutcomes, outcome)
    /\ itemIndex' = itemIndex + 1
    /\ batchPc' = "loop"
    /\ UNCHANGED <<transfer, items, continueOnFail, nodeOutcome, parses,
                   responseLength>>

\* the operation raised: the catch block of the loop
ItemRaised ==
    /\ batchPc = "item"
    /\ TransferFinished
    /\ outcome.kind = "raised"
    /\ itemOutcomes' = Append(itemOutcomes, outcome)
    /\ ItemFailed(outcome.message)
    /\ UNCHANGED <<transfer, items, continueOnFail, parses, responseLength>>

\* the loop is over: return [returnData]
NodeReturn ==
    /\ batchPc = "loop"
    /\ itemIndex >= Len(items)
    /\ nodeOutcome' = Returned(<<returnData>>)
    /\ batchPc' = "done"
    /\ UNCHANGED <<transfer, items, itemIndex, returnData, continueOnFail,
                   itemOutcomes, parses, responseLength>>

BatchNext ==
    \/ CallTransfer
    \/ RejectParameters /\ Alone
    \/ RejectDownloadUrl /\ Alone
    \/ StartDownload /\ Alone
    \/ \E status \in BatchStatuses, header \in BatchLengths :
           DownloadResponse(status, header) /\ Alone
    \/ \E message \in BatchFaults : DownloadError(message) /\ Alone
    \/ DownloadRejected /\ Alone
    \/ DownloadResolved /\ Alone
    \/ \E status \in BatchStatuses : UploadResponse(status) /\ Alone
    \/ \E message \in BatchFaults : UploadError(message) /\ Alone
    \/ ItemReturned
    \/ ItemRaised
    \/ NodeReturn

BatchSpec == BatchInit /\ [][BatchNext]_vars

-----------------------------------------------------------------------------
(* Transfers over a wider range of header parameters and content-length    *)
(* headers, between two fixed hosts                                        *)

\* headers parameters: valid and invalid JSON texts, and objects
HeaderParams ==
    {HeaderText("{}"),
     HeaderText(""),
     HeaderText("{oops"),
     HeaderText("Accept: text/plain"),
     HeaderText("42"),
     HeaderText("{\"Content-Length\":99,\"X-Flag\":true}"),
     HeaderObject("content-length" :> PString("5")),
     HeaderObject("Authorization" :> PString("Basic u1"))}

\* content-length headers of the download response: absent, positive,
\* zero, negative, not a number, a number followed by other text, empty
ContentLengthHeaders ==
    {JsUndefined,
     JsText(<<"4", "2">>),
     JsText(<<"0">>),
     JsText(<<"-", "5">>),
     JsText(<<"a", "b", "c">>),
     JsText(<<"1", "2", "k">>),
     JsText(<<>>)}

HeaderInit ==
    /\ variant \in Variants
    /\ downloadUrl = "https://src.example/file.bin"
    /\ uploadUrl \in {"https://dst.example/upload",
                      "https://dst.example/upload?bearer=tok1"}
    /\ contentLength \in {JsText(<<>>), JsNumber(7)}
    /\ method = "POST"
    /\ downloadHeadersParam \in HeaderParams
    /\ uploadHeadersParam \in HeaderParams
    /\ throwOnError \in BOOLEAN
    /\ pc = "entry"
    /\ finalDownloadHeaders = NoHeaders
    /\ finalUploadHeaders = NoHeaders
    /\ downloadRequests = <<>>
    /\ uploadRequests = <<>>
    /\ downloadPromise = NoPromise
    /\ downloadEvents = <<>>
    /\ uploadEvents = <<>>
    /\ downloadStatusCode = NoStatus
    /\ stream = "none"
    /\ outcome = NoOutcome
    /\ items = <<>>
    /\ itemIndex = 0
    /\ returnData = <<>>
    /\ continueOnFail = FALSE
    /\ batchPc = "idle"
    /\ nodeOutcome = NoOutcome
    /\ itemOutcomes = <<>>
    /\ parses = <<>>
    /\ responseLength = JsUndefined

\* the response's content-length header is kept for the properties
Keeping(header) ==
    /\ responseLength' = header
    /\ UNCHANGED <<batch, parses>>

HeaderNext ==
    \/ StartDownload /\ Alone
    \/ \E status \in BatchStatuses, header \in ContentLengthHeaders :
           DownloadResponse(status, header) /\ Keeping(header)
    \/ \E message \in BatchFaults : DownloadError(message) /\ Alone
    \/ DownloadRejected /\ Alone
    \/ DownloadResolved /\ Alone
    \/ \E status \in BatchStatuses, header \in ContentLengthHeaders :
           HelperDownloadResponse(status, header, "stream") /\ Keeping(header)
    \/ \E message \in BatchFaults : HelperDownloadError(message) /\ Alone
    \/ \E status \in BatchStatuses : UploadResponse(status) /\ Alone
    \/ \E message \in BatchFaults : UploadError(message) /\ Alone

HeaderSpec == HeaderInit /\ [][HeaderNext]_vars

-----------------------------------------------------------------------------
(* parseHeaders called on a parameter and then on its own results          *)

\* the largest number of successive calls
MaxParses == 2

\* values of the entries of an object handed to parseHeaders
EntryValues ==
    {PString("a"), PString(""), PNumber(7), PNumber(-3), PBoolean, PNull,
     PObject}

\* objects with entries under some of two names
ObjectParams ==
    {HeaderObject(entries) :
        entries \in UNION {[names -> EntryValues] :
                              names \in SUBSET {"Accept", "X-Id"}}}

ParseInputs ==
    HeaderParams \union ObjectParams
    \union {HeaderText("{\"Authorization\":\"Basic u1\"}"),
            HeaderText("[\"a\"]"), HeaderText("null")}

\* a mapping parseHeaders returned, handed to it again
AsParameter(h) == HeaderObject([k \in DOMAIN h |-> PString(h[k])])

ParseInit ==
    /\ uploadHeadersParam \in ParseInputs
    /\ parses = <<>>
    /\ variant = "native"
    /\ downloadUrl = ""
    /\ uploadUrl = ""
    /\ contentLength = JsText(<<>>)
    /\ method = "POST"
    /\ downloadHeadersParam = HeaderText("{}")
    /\ throwOnError = TRUE
    /\ pc = "idle"
    /\ finalDownloadHeaders = NoHeaders
    /\ finalUploadHeaders = NoHeaders
    /\ downloadRequests = <<>>
    /\ uploadRequests = <<>>
    /\ downloadPromise = NoPromise
    /\ downloadEvents = <<>>
    /\ uploadEvents = <<>>
    /\ downloadStatusCode = NoStatus
    /\ stream = "none"
    /\ outcome = NoOutcome
    /\ items = <<>>
    /\ itemIndex = 0
    /\ returnData = <<>>
    /\ continueOnFail = FALSE
    /\ batchPc = "idle"
    /\ nodeOutcome = NoOutcome
    /\ itemOutcomes = <<>>
    /\ responseLength = JsUndefined

\* parseHeaders(uploadHeaders)
ParseParameter ==
    /\ parses = <<>>
    /\ parses' = <<parseHeaders(uploadHeadersParam)>>
    /\ UNCHANGED <<transfer, batch, responseLength>>

\* parseHeaders(the mapping the call before returned)
ParseResult ==
    /\ parses # <<>>
    /\ Len(parses) < MaxParses
    /\ parses' =
           Append(parses, parseHeaders(AsParameter(parses[Len(parses)])))
    /\ UNCHANGED <<transfer, batch, responseLength>>

ParseNext == ParseParameter \/ ParseResult

ParseSpec == ParseInit /\ [][ParseNext]_vars

-----------------------------------------------------------------------------
(* The batch with a transport that answers every request                   *)

\* the steps the code takes by itself: the loop and the continuations of
\* the operation
ProgramStep ==
    \/ CallTransfer
    \/ RejectParameters /\ Alone
    \/ RejectDownloadUrl /\ Alone
    \/ StartDownload /\ Alone
    \/ DownloadRejected /\ Alone
    \/ DownloadResolved /\ Alone
    \/ ItemReturned
    \/ ItemRaised
    \/ NodeReturn

\* the transport delivers a response or an error for a download request
\* that is waited for
DownloadDelivery ==
    /\ downloadPromise.state = "pending"
    /\ \/ \E status \in BatchStatuses, header \in BatchLengths :
              DownloadResponse(status, header) /\ Alone
       \/ \E message \in BatchFaults : DownloadError(message) /\ Alone

\* the transport delivers a response or an error for the upload request
UploadDelivery ==
    \/ \E status \in BatchStatuses : UploadResponse(status) /\ Alone
    \/ \E message \in BatchFaults : UploadError(message) /\ Alone

FairBatchSpec ==
    /\ BatchInit
    /\ [][BatchNext]_vars
    /\ WF_vars(ProgramStep)
    /\ WF_vars(DownloadDelivery)
    /\ WF_vars(UploadDelivery)

-----------------------------------------------------------------------------
(* Vocabulary of the properties                                            *)

\* empty or white space only
Blank(url) == url \in {"", " ", "  "}

Is2xx(status) == status \in 200..299

Done == pc = "done"

\* the text part occurs in the message
Contains(message, part) == \E i \in 1..Len(message) : message[i] = part

\* a header name in lower case
LowerCase(k) ==
    CASE k \in {"Authorization", "authorization", "AUTHORIZATION"} -> "authorization"
      [] k \in {"Content-Length", "content-length"} -> "content-length"
      [] k \in {"Content-Type", "content-type"} -> "content-type"
      [] k \in {"Accept", "accept"} -> "accept"
      [] k \in {"X-Flag", "x-flag"} -> "x-flag"
      [] OTHER -> k

\* the upload headers the user supplied
UserUploadHeaders == parseHeaders(uploadHeadersParam)

UploadSent == uploadRequests # <<>>

\* the headers of the upload request that was sent
SentUploadHeaders == uploadRequests[1].headers

FirstDownloadIs(type) ==
    downloadEvents # <<>> /\ downloadEvents[1].type = type

\* the status of the download response, when the response came first
FirstDownloadStatus == downloadEvents[1].status

\* the download leg failed with a status: outside 2xx, or ("native") none
DownloadStatusFailure ==
    /\ FirstDownloadIs("response")
    /\ \/ FirstDownloadStatus # NoStatus /\ ~Is2xx(FirstDownloadStatus)
       \/ FirstDownloadStatus = NoStatus /\ variant = "native"

UploadIs(type) == uploadEvents # <<>> /\ uploadEvents[1].type = type

UploadStatus == uploadEvents[1].status

UploadStatusFailure ==
    UploadIs("response") /\ UploadStatus # NoStatus /\ ~Is2xx(UploadStatus)

\* the message of the failure, raised or returned
FailureMessage ==
    IF outcome.kind = "raised" THEN outcome.message
    ELSE IF outcome.kind = "returned" /\ "error" \in DOMAIN outcome.json
    THEN outcome.json.error
    ELSE <<>>

-----------------------------------------------------------------------------
(* Properties                                                              *)

\* C1: when downloadUrl or uploadUrl is empty or white space only, the
\* invocation sends no download and no upload request, and it ends by
\* raising the "... is required" failure, whatever throwOnError is.
C1_BlankUrlRaisesBeforeAnyRequest ==
    (Blank(downloadUrl) \/ Blank(uploadUrl)) =>
        /\ downloadRequests = <<>>
        /\ uploadRequests = <<>>
        /\ pc \in {"entry", "done"}
        /\ Done => /\ outcome.kind = "raised"
                   /\ outcome.message \in {DownloadUrlRequired, UploadUrlRequired}

\* C1 witness: a blank upload URL with throwOnError false has raised
C1_Witness ==
    /\ Done
    /\ ~Blank(downloadUrl)
    /\ Blank(uploadUrl)
    /\ ~throwOnError
    /\ outcome = Raised(UploadUrlRequired)

\* C2: an upload request is sent only after a download response arrived
\* first ("native": with a status in [200,300)), at most once; when the
\* download failed first (error, or a status outside [200,300)) no upload
\* request is ever sent, whatever throwOnError is.
C2_UploadOnlyAfterGoodDownload ==
    /\ UploadSent =>
           /\ FirstDownloadIs("response")
           /\ variant = "native" => Is2xx(FirstDownloadStatus)
           /\ FirstDownloadStatus # NoStatus => Is2xx(FirstDownloadStatus)
           /\ Len(uploadRequests) = 1
    /\ (FirstDownloadIs("error") \/ DownloadStatusFailure) => ~UploadSent

\* C2 witness: a 404 download has ended the invocation and nothing was
\* uploaded
C2_Witness ==
    /\ Done
    /\ variant = "native"
    /\ FirstDownloadIs("response")
    /\ FirstDownloadStatus = 404
    /\ ~throwOnError
    /\ ~UploadSent

\* C3 (the claim as stated): a download status outside [200,300) with
\* throwOnError false ends in a returned record whose downloadStatus is that
\* status; with throwOnError true it ends in a raised failure.
C3_DownloadFailureCarriesStatus ==
    (Done /\ FirstDownloadIs("response") /\ FirstDownloadStatus # NoStatus
          /\ ~Is2xx(FirstDownloadStatus)) =>
        IF throwOnError
        THEN outcome.kind = "raised"
        ELSE /\ outcome.kind = "returned"
             /\ "downloadStatus" \in DOMAIN outcome.json
             /\ outcome.json.downloadStatus = FirstDownloadStatus

\* C4 (the claim as stated): download 2xx, upload status outside [200,300)
\* and throwOnError false end in a returned record with success false and
\* both statuses.
C4_UploadFailureRecord ==
    (Done /\ FirstDownloadIs("response") /\ Is2xx(FirstDownloadStatus)
          /\ UploadStatusFailure /\ ~throwOnError) =>
        /\ outcome.kind = "returned"
        /\ "error" \in DOMAIN outcome.json
        /\ "success" \in DOMAIN outcome.json
        /\ outcome.json.success = FALSE
        /\ "uploadStatus" \in DOMAIN outcome.json
        /\ outcome.json.uploadStatus = UploadStatus
        /\ "downloadStatus" \in DOMAIN outcome.json
        /\ outcome.json.downloadStatus = FirstDownloadStatus

\* the download response had a 2xx status and a parsed object as its body
ObjectBody2xx ==
    /\ FirstDownloadIs("response")
    /\ Is2xx(FirstDownloadStatus)
    /\ downloadEvents[1].body = "object"

ExplicitPositiveLength ==
    /\ Truthy(contentLength)
    /\ ~ToLength(contentLength).nan
    /\ ToLength(contentLength).val > 0

UserHasAuthorization ==
    \E k \in DOMAIN UserUploadHeaders : LowerCase(k) = "authorization"

\* the upload URL parses and has a non-empty bearer parameter
HasBearerParameter ==
    /\ UrlParses(uploadUrl)
    /\ ~SearchParamsGetBearer(uploadUrl).isNull
    /\ SearchParamsGetBearer(uploadUrl).s # ""

\* C7: when the upload URL has a non-empty bearer parameter and the user's
\* upload headers have no authorization entry, the upload request carries
\* Authorization: "Bearer " followed by the parameter's value.
C7_BearerInjected ==
    (UploadSent /\ HasBearerParameter /\ ~UserHasAuthorization) =>
        /\ HasKey(SentUploadHeaders, "Authorization")
        /\ SentUploadHeaders["Authorization"] =
               "Bearer " \o SearchParamsGetBearer(uploadUrl).s

\* C7 witness: the token of ?bearer=tok1 went out as "Bearer tok1"
C7_Witness ==
    /\ UploadSent
    /\ uploadUrl = "https://dst.example/upload?bearer=tok1"
    /\ ~UserHasAuthorization
    /\ SentUploadHeaders["Authorization"] = "Bearer tok1"

\* C8 (the claim as stated): when the user's upload headers have an
\* authorization entry in any casing, every authorization header of the
\* upload request is the user's, with the user's value.
C8_UserAuthorizationKept ==
    (UploadSent /\ UserHasAuthorization) =>
        \A k \in DOMAIN SentUploadHeaders :
            LowerCase(k) = "authorization" =>
                /\ HasKey(UserUploadHeaders, k)
                /\ SentUploadHeaders[k] = UserUploadHeaders[k]

\* a failure of the transfer, as the transport and the inputs decide it
TransferFailure ==
    \/ variant = "native" /\ ~UrlParses(downloadUrl)
    \/ FirstDownloadIs("error")
    \/ DownloadStatusFailure
    \/ /\ variant = "helper"
       /\ FirstDownloadIs("response")
       /\ downloadEvents[1].body \notin {"stream", "buffer"}
    \/ UploadIs("error")
    \/ UploadStatusFailure

\* C9: once both URLs passed validation, a failure is raised when
\* throwOnError is true and returned as a record with an error field when
\* it is false; nothing with an error field is returned when throwOnError
\* is true, and nothing is raised when it is false.
C9_ThrowOnErrorSelectsChannel ==
    (Done /\ ~Blank(downloadUrl) /\ ~Blank(uploadUrl)) =>
        IF throwOnError
        THEN /\ TransferFailure <=> outcome.kind = "raised"
             /\ outcome.kind = "returned" => "error" \notin DOMAIN outcome.json
        ELSE /\ outcome.kind = "returned"
             /\ TransferFailure <=> "error" \in DOMAIN outcome.json

\* C9 witness: an upload answered with a status outside 2xx ended in a
\* returned record with throwOnError false
C9_Witness ==
    /\ Done
    /\ ~throwOnError
    /\ UploadStatusFailure
    /\ outcome.kind = "returned"
    /\ "error" \in DOMAIN outcome.json

\* the download or the upload ended with a transport error and no status
NetworkFault == FirstDownloadIs("error") \/ UploadIs("error")

\* C10: a transport error on the download or on the upload ends in a
\* returned failure record when throwOnError is false and in a raised
\* failure when it is true; the message names both URLs either way.
C10_NetworkFaultNamesBothUrls ==
    (Done /\ NetworkFault) =>
        /\ throwOnError => outcome.kind = "raised"
        /\ ~throwOnError => /\ outcome.kind = "returned"
                            /\ "error" \in DOMAIN outcome.json
        /\ Contains(FailureMessage, downloadUrl)
        /\ Contains(FailureMessage, uploadUrl)

\* C10 witness: the native download request failed and the failure was
\* raised
C10_Witness ==
    /\ Done
    /\ variant = "native"
    /\ FirstDownloadIs("error")
    /\ throwOnError
    /\ outcome.kind = "raised"
    /\ Contains(outcome.message, "Download request failed: ")

-----------------------------------------------------------------------------
(* C11: one outcome per invocation; the first download event decides      *)

\* the record of a completed transfer
SuccessOutcome ==
    /\ outcome.kind = "returned"
    /\ HasKey(outcome.json, "success")
    /\ outcome.json.success = TRUE

\* a record that reports a failure
FailureOutcome ==
    /\ outcome.kind = "returned"
    /\ HasKey(outcome.json, "error")
    /\ ~SuccessOutcome

RaisedOutcome == outcome.kind = "raised"

\* exactly one of the three outcomes once the invocation ended, none before
OneOutcome ==
    IF Done
    THEN \/ SuccessOutcome /\ ~FailureOutcome /\ ~RaisedOutcome
         \/ ~SuccessOutcome /\ FailureOutcome /\ ~RaisedOutcome
         \/ ~SuccessOutcome /\ ~FailureOutcome /\ RaisedOutcome
    ELSE outcome = NoOutcome

\* "native": the event that arrived first is the result of the download
FirstEventDecides ==
    variant = "native" /\ Done /\ downloadEvents # <<>> =>
        /\ FirstDownloadIs("error") =>
               /\ ~UploadSent
               /\ ~SuccessOutcome
               /\ Contains(FailureMessage, "Download request failed: ")
        /\ DownloadStatusFailure =>
               /\ ~UploadSent
               /\ ~SuccessOutcome
               /\ Contains(FailureMessage, "Download failed with HTTP ")
        /\ FirstDownloadIs("response") /\ ~DownloadStatusFailure =>
               /\ UploadSent
               /\ downloadStatusCode = FirstDownloadStatus

\* a settled promise and an ended invocation stay as they are
LaterEventsChangeNothing ==
    /\ downloadPromise.state \in {"resolved", "rejected"} =>
           downloadPromise' = downloadPromise
    /\ Done => pc' = pc /\ outcome' = outcome /\ uploadRequests' = uploadRequests

\* C11: every invocation that ended has exactly one of the outcomes success
\* record, failure record, raised error; when the download delivers both a
\* response and an error, in either order, the first decides the download
\* and the later one changes nothing of the outcome.
C11_ExactlyOneOutcome ==
    /\ [](OneOutcome /\ FirstEventDecides)
    /\ [][LaterEventsChangeNothing]_vars

\* an invocation ended after its download delivered an error and then a
\* response with a good status
C11_Witness ==
    /\ Done
    /\ Len(downloadEvents) = 2
    /\ downloadEvents[1].type = "error"
    /\ downloadEvents[2].type = "response"
    /\ Is2xx(downloadEvents[2].status)
    /\ outcome.kind \in {"raised", "returned"}

-----------------------------------------------------------------------------
(* C12: the success record                                                 *)

\* both legs answered with a status in [200, 300) and no transport fault
\* came first on either leg
BothLegs2xx ==
    /\ FirstDownloadIs("response")
    /\ Is2xx(FirstDownloadStatus)
    /\ UploadIs("response")
    /\ Is2xx(UploadStatus)

\* C12: when the download answers with a status d in [200, 300), the upload
\* answers with a status u in [200, 300) and no transport fault occurs, the
\* invocation returns a record with success true, downloadStatus d and
\* uploadStatus u.
C12_SuccessRecordCarriesBothStatuses ==
    Done /\ BothLegs2xx =>
        /\ outcome.kind = "returned"
        /\ {"success", "downloadStatus", "uploadStatus"} \subseteq DOMAIN outcome.json
        /\ ~HasKey(outcome.json, "error")
        /\ outcome.json.success = TRUE
        /\ outcome.json.downloadStatus = FirstDownloadStatus
        /\ outcome.json.uploadStatus = UploadStatus

\* a transfer ended with download status 299 and upload status 200
C12_Witness ==
    /\ Done
    /\ BothLegs2xx
    /\ FirstDownloadStatus = 299
    /\ UploadStatus = 200
    /\ SuccessOutcome

-----------------------------------------------------------------------------
(* C13, C14: the batch                                                     *)

\* the output record the loop owes to the item whose transfer ended as o
Owed(o, index) ==
    IF o.kind = "raised"
    THEN OutputRecord([error |-> o.message], index)
    ELSE OutputRecord(o.json, index)

\* C13: with continue-on-fail enabled the node's execute returns exactly one
\* output record per input item, in input order, each paired to its item's
\* index; an item whose transfer raised yields the record {error: message}
\* paired to that item, and the items after it are still processed.
C13_OneRecordPerItem ==
    continueOnFail =>
        /\ nodeOutcome.kind # "raised"
        /\ Len(returnData) = Len(itemOutcomes)
        /\ \A i \in 1..Len(returnData) :
               /\ returnData[i].pairedItem = i - 1
               /\ itemOutcomes[i].kind \in {"raised", "returned"}
               /\ returnData[i] = Owed(itemOutcomes[i], i - 1)
        /\ nodeOutcome.kind = "returned" =>
               /\ nodeOutcome.json = <<returnData>>
               /\ Len(returnData) = Len(items)

\* a batch of two returned after its first item raised and its second item
\* was transferred
C13_Witness ==
    /\ continueOnFail
    /\ nodeOutcome.kind = "returned"
    /\ Len(items) = 2
    /\ Len(itemOutcomes) = 2
    /\ itemOutcomes[1].kind = "raised"
    /\ itemOutcomes[2].kind = "returned"
    /\ HasKey(returnData[2].json, "success")
    /\ returnData[2].json.success = TRUE

\* the transfers of all items before the current one have ended
EarlierItemsFinished ==
    /\ Len(itemOutcomes) = itemIndex
    /\ \A i \in 1..Len(itemOutcomes) :
           itemOutcomes[i].kind \in {"raised", "returned"}

\* a request has just been handed to the transport
Issued(requests, after) == after # requests /\ after # <<>>

\* the headers are those of the current item: nothing but Content-Length
\* is added to what its parameters give
HeadersOfItem(headers, item) ==
    LET own == UploadHeaders(item.uploadHeadersParam, item.uploadUrl,
                             item.contentLength)
    IN  /\ DOMAIN own \subseteq DOMAIN headers
        /\ DOMAIN headers \subseteq DOMAIN own \union {"Content-Length"}
        /\ \A k \in DOMAIN own : headers[k] = own[k]

\* a download is requested only when every earlier transfer has ended, for
\* the current item's URL and headers and with no stream at hand; an upload
\* is requested only with the current item's headers and the stream of the
\* current item's response
RequestsOfCurrentItemOnly ==
    /\ Issued(downloadRequests, downloadRequests') =>
           /\ EarlierItemsFinished
           /\ itemIndex < Len(items)
           /\ downloadRequests'[1] =
                  DownloadRequest(items[itemIndex + 1].downloadUrl,
                                  DownloadHeaders(
                                      items[itemIndex + 1].downloadHeadersParam))
           /\ stream = "none"
           /\ uploadRequests = <<>>
    /\ Issued(uploadRequests, uploadRequests') =>
           /\ EarlierItemsFinished
           /\ itemIndex < Len(items)
           /\ Len(downloadRequests) = 1
           /\ Len(uploadRequests') = 1
           /\ uploadRequests'[1].url = items[itemIndex + 1].uploadUrl
           /\ HeadersOfItem(uploadRequests'[1].headers, items[itemIndex + 1])
           /\ stream = "open"
           /\ FirstDownloadIs("response")

\* C14: within a batch the transfers never overlap: the download request of
\* an item is issued only after the transfers of all earlier items have
\* ended, and no header mapping or stream of one item's transfer is used by
\* the transfer of another item.
C14_TransfersNeverOverlap == [][RequestsOfCurrentItemOnly]_vars

\* the second item's upload has been requested after the first item's
\* transfer ended with different upload headers
C14_Witness ==
    /\ itemIndex = 1
    /\ Len(itemOutcomes) = 1
    /\ itemOutcomes[1].kind = "returned"
    /\ Len(items) = 2
    /\ items[1].uploadHeadersParam # items[2].uploadHeadersParam
    /\ UploadSent
    /\ batchPc = "item"

-----------------------------------------------------------------------------
(* C15: the download stream at the end of the invocation                   *)

\* the download answered, before any error, with a stream as its body
StreamArrived ==
    FirstDownloadIs("response") /\ downloadEvents[1].body = "stream"

\* C15: once a download response has arrived, its body stream is, by the
\* time the invocation ends, either read to the end by the upload request or
\* destroyed; after a download status outside 2xx, an upload transport fault
\* or an upload status outside 2xx it is not left open.  Stated for the
\* implementation the node registers.
C15_StreamConsumedOrDestroyed ==
    variant = "native" /\ Done /\ StreamArrived =>
        stream \in {"consumed", "destroyed"}

-----------------------------------------------------------------------------
(* C16: headers text that is not JSON                                      *)

\* a string that JSON.parse rejects
NotJson(param) == param.kind = "string" /\ ~JsonParse(param.text).ok

\* C16: for every headers string that is not valid JSON parseHeaders returns
\* the empty mapping and does not raise: the transfer goes on and its
\* requests carry only the default headers (Accept on the download;
\* Content-Type, and the Authorization and Content-Length execute itself
\* derives, on the upload).
C16_InvalidJsonGivesDefaults ==
    /\ NotJson(downloadHeadersParam) =>
           /\ parseHeaders(downloadHeadersParam) = NoHeaders
           /\ pc # "entry" => downloadRequests # <<>>
           /\ downloadRequests # <<>> =>
                  downloadRequests[1].headers = ("Accept" :> "*/*")
    /\ NotJson(uploadHeadersParam) =>
           /\ parseHeaders(uploadHeadersParam) = NoHeaders
           /\ pc # "entry" => downloadRequests # <<>>
           /\ UploadSent =>
                  /\ HasKey(SentUploadHeaders, "Content-Type")
                  /\ SentUploadHeaders["Content-Type"] =
                         "application/octet-stream"
                  /\ DOMAIN SentUploadHeaders \subseteq
                         {"Content-Type", "Authorization", "Content-Length"}
                  /\ HasKey(SentUploadHeaders, "Authorization") =>
                         SentUploadHeaders["Authorization"] = "Bearer tok1"

\* a transfer succeeded although neither headers parameter was JSON
C16_Witness ==
    /\ NotJson(downloadHeadersParam)
    /\ NotJson(uploadHeadersParam)
    /\ uploadHeadersParam.text # ""
    /\ downloadHeadersParam.text # ""
    /\ Done
    /\ UploadSent
    /\ SuccessOutcome

-----------------------------------------------------------------------------
(* C17: parseHeaders is idempotent                                         *)

\* C17: parseHeaders(parseHeaders(x)) = parseHeaders(x) for every string or
\* mapping x, and every value of the result is a string.
C17_ParseHeadersIdempotent ==
    \A i \in 1..Len(parses) :
        /\ parses[i] = parses[1]
        /\ \A k \in DOMAIN parses[i] : parses[i][k] \in STRING

\* parseHeaders was applied again to a result that came from an object with
\* a number and a boolean entry
C17_Witness ==
    /\ Len(parses) = 2
    /\ uploadHeadersParam.kind = "object"
    /\ DOMAIN uploadHeadersParam.entries = {"Accept", "X-Id"}
    /\ uploadHeadersParam.entries["Accept"] = PNumber(7)
    /\ uploadHeadersParam.entries["X-Id"] = PBoolean
    /\ parses[2] = ("Accept" :> "7")

-----------------------------------------------------------------------------
(* C18: extractBearerToken leaves the URL alone                            *)

\* some Authorization header, in any casing, is on the upload request
SentAuthorization ==
    \E k \in DOMAIN SentUploadHeaders : LowerCase(k) = "authorization"

\* C18: extractBearerToken never raises and never alters the URL: it returns
\* the input URL unchanged for every input, with no credential when the URL
\* does not parse or has no or an empty bearer parameter (so nothing is
\* injected then); the upload request goes to exactly the uploadUrl string
\* supplied, the bearer parameter still in its query.
C18_UploadUrlUnaltered ==
    /\ extractBearerToken(uploadUrl).cleanUrl = uploadUrl
    /\ ~HasBearerParameter => extractBearerToken(uploadUrl).token = Null
    /\ UploadSent => uploadRequests[1].url = uploadUrl
    /\ UploadSent /\ ~HasBearerParameter /\ ~UserHasAuthorization =>
           ~SentAuthorization

\* uploads were sent to a URL with a bearer parameter that does not parse
\* as a URL
C18_Witness ==
    /\ UploadSent
    /\ uploadUrl = "dst.example/upload?bearer=tok1"
    /\ uploadRequests[1].url = "dst.example/upload?bearer=tok1"
    /\ ~UserHasAuthorization
    /\ Done

-----------------------------------------------------------------------------
(* C19: Content-Length taken from the download response                    *)

\* no contentLength parameter and no Content-Length among the user's
\* upload headers
NoLengthGiven ==
    /\ contentLength = JsText(<<>>)
    /\ ~HasKey(UserUploadHeaders, "Content-Length")

\* the upload request carries the number the response's content-length
\* header parses to when that is positive, and no Content-Length otherwise
LengthOfResponse ==
    LET n == IF responseLength.kind = "string"
             THEN ParseInt(responseLength.text)
             ELSE NaN
    IN  IF ~n.nan /\ n.val > 0
        THEN /\ HasKey(SentUploadHeaders, "Content-Length")
             /\ SentUploadHeaders["Content-Length"] = JsString(n.val)
        ELSE ~HasKey(SentUploadHeaders, "Content-Length")

\* once the upload request is issued its headers stay as they are
HeadersFixedAtUpload ==
    UploadSent =>
        /\ uploadRequests' = uploadRequests
        /\ finalUploadHeaders' = finalUploadHeaders
        /\ finalUploadHeaders = SentUploadHeaders

\* C19: when no explicit contentLength is given and the user's upload
\* headers have no Content-Length entry, the upload request carries a
\* Content-Length equal to the download response's content-length header if
\* that header parses to a positive integer, and none if the header is
\* absent, not a number, zero or negative; the value is fixed before the
\* upload request is issued.
C19_ContentLengthFromResponse ==
    /\ [](UploadSent /\ NoLengthGiven => LengthOfResponse)
    /\ [][HeadersFixedAtUpload]_vars

\* an upload was sent with the length 12 read from the header "12k", and
\* the user's headers had a lower-case content-length
C19_Witness ==
    /\ UploadSent
    /\ NoLengthGiven
    /\ responseLength = JsText(<<"1", "2", "k">>)
    /\ SentUploadHeaders["Content-Length"] = "12"
    /\ HasKey(UserUploadHeaders, "content-length")
    /\ Done

-----------------------------------------------------------------------------
(* C20: the raised status message                                          *)

\* the message starts with the given parts
BeginsWith(message, parts) ==
    Len(message) >= Len(parts) /\ SubSeq(message, 1, Len(parts)) = parts

\* C20: with throwOnError true and a status outside 2xx on the download
\* (resp. upload) leg, the raised message is the status message itself: it
\* begins with "Download failed with HTTP <code> from <downloadUrl>" (resp.
\* "Upload failed with HTTP <code> to <uploadUrl>"), with nothing put in
\* front of it by the outer handler.
C20_RaisedStatusMessageUnprefixed ==
    Done /\ throwOnError =>
        /\ DownloadStatusFailure =>
               /\ outcome.kind = "raised"
               /\ BeginsWith(outcome.message,
                             <<"Download failed with HTTP ",
                               JsString(StatusOr(FirstDownloadStatus, 0)),
                               " from ", downloadUrl>>)
        /\ UploadStatusFailure =>
               /\ outcome.kind = "raised"
               /\ BeginsWith(outcome.message,
                             <<"Upload failed with HTTP ",
                               JsString(UploadStatus), " to ", uploadUrl>>)

-----------------------------------------------------------------------------
(* C21: a batch without continue-on-fail                                   *)

\* the node's execute raised the failure of the item being transferred
AbortedBy(i) ==
    /\ nodeOutcome = Raised(itemOutcomes[i].message)
    /\ batchPc = "done"
    /\ i = Len(itemOutcomes)
    /\ itemIndex = i - 1

\* after the node's execute raised, no transfer is started and nothing is
\* returned
NothingAfterAbort ==
    nodeOutcome.kind = "raised" =>
        /\ nodeOutcome' = nodeOutcome
        /\ pc' = pc
        /\ itemIndex' = itemIndex
        /\ downloadRequests' = downloadRequests
        /\ uploadRequests' = uploadRequests
        /\ itemOutcomes' = itemOutcomes

\* C21: with continue-on-fail disabled the first item whose transfer raises
\* aborts the batch: the failure is raised by the node's execute, no
\* transfer is started for a later item and no output array is returned,
\* also not the records of the items transferred before.
C21_FirstRaiseAbortsBatch ==
    /\ [](~continueOnFail =>
             /\ \A i \in 1..Len(itemOutcomes) :
                    itemOutcomes[i].kind = "raised" => AbortedBy(i)
             /\ nodeOutcome.kind = "raised" =>
                    /\ itemOutcomes # <<>>
                    /\ itemOutcomes[Len(itemOutcomes)].kind = "raised"
             /\ nodeOutcome.kind = "returned" =>
                    \A i \in 1..Len(itemOutcomes) :
                        itemOutcomes[i].kind = "returned")
    /\ [][NothingAfterAbort]_vars

\* the first of two items was transferred and the second raised: the batch
\* was aborted with one record in returnData that is not delivered
C21_Witness ==
    /\ ~continueOnFail
    /\ Len(items) = 2
    /\ Len(itemOutcomes) = 2
    /\ itemOutcomes[1].kind = "returned"
    /\ HasKey(itemOutcomes[1].json, "success")
    /\ itemOutcomes[1].json.success = TRUE
    /\ itemOutcomes[2].kind = "raised"
    /\ Len(returnData) = 1
    /\ nodeOutcome = Raised(itemOutcomes[2].message)

-----------------------------------------------------------------------------
(* C22: what a success record presupposes                                  *)

\* the status a record reports for a status the transport did not report
Reported(status) == IF status = NoStatus THEN 200 ELSE status

\* the upload returned a response with a status in [200, 300) or with none
UploadAccepted ==
    /\ UploadIs("response")
    /\ Is2xx(UploadStatus) \/ UploadStatus = NoStatus

\* C22 (the claim as stated): a record with success true is returned only
\* if the download status was in [200, 300) and the upload status was in
\* [200, 300) or not reported; no path that saw a status outside 2xx or a
\* fault on either leg returns success true.
C22_SuccessOnlyWithoutStatusOrFault ==
    [][~SuccessOutcome /\ SuccessOutcome' =>
          /\ FirstDownloadIs("response")
          /\ Is2xx(FirstDownloadStatus)
          /\ ~Delivered(downloadEvents, "error")
          /\ UploadAccepted'
          /\ ~Delivered(uploadEvents', "error")]_vars

\* C22 (amended): a record with success true is returned only if the first
\* thing the download delivered was a response with a status in [200, 300)
\* ("helper": or with no status) and the upload returned a response with a
\* status in [200, 300) or with none; the record reports these statuses,
\* 200 for one that was not reported.  An error the download delivers after
\* its response does not stand in the way.
C22_SuccessOnlyAfterTwoGoodLegs ==
    SuccessOutcome =>
        /\ FirstDownloadIs("response")
        /\ \/ Is2xx(FirstDownloadStatus)
           \/ variant = "helper" /\ FirstDownloadStatus = NoStatus
        /\ UploadAccepted
        /\ outcome.json.downloadStatus = Reported(FirstDownloadStatus)
        /\ outcome.json.uploadStatus = Reported(UploadStatus)

\* a success record after an upload response without a status, reported
\* as 200
C22_Witness ==
    /\ SuccessOutcome
    /\ variant = "native"
    /\ FirstDownloadStatus = 299
    /\ UploadIs("response")
    /\ UploadStatus = NoStatus
    /\ outcome.json.uploadStatus = 200

-----------------------------------------------------------------------------
(* C23: termination without retry                                          *)

\* the invocation ended with an outcome
Ended == Done /\ outcome.kind \in {"raised", "returned"}

\* the node's execute returned or raised
BatchEnded == batchPc = "done" /\ nodeOutcome.kind \in {"raised", "returned"}

\* C23: when the transport delivers a response or an error for every
\* request, every invocation of the operation eventually ends with an
\* outcome and the loop over the items eventually returns or raises; at
\* most one download request and at most one upload request are issued per
\* invocation.
C23_TerminatesWithoutRetry ==
    /\ (batchPc = "item") ~> Ended
    /\ <>BatchEnded
    /\ [](Len(downloadRequests) <= 1 /\ Len(uploadRequests) <= 1)

\* a batch of two ended after both items were transferred with one
\* download and one upload request each
C23_Witness ==
    /\ BatchEnded
    /\ Len(items) = 2
    /\ Len(itemOutcomes) = 2
    /\ Ended
    /\ Len(downloadRequests) = 1
    /\ Len(uploadRequests) = 1
    /\ \A i \in 1..2 : /\ HasKey(itemOutcomes[i].json, "success")
                       /\ itemOutcomes[i].json.success = TRUE

====
